---- MODULE Spec2Model ----
(***************************************************************************)
(* Stormy Seas solver: the state/move engine (stormyseas/state.py,         *)
(* pieces.py, directions.py, position.py), the breadth-first search        *)
(* (stormyseas/bfs.py) and the solution reconstruction                     *)
(* (MoveGenerator/Solution in stormyseas/solve.py).                        *)
(*                                                                         *)
(* A Position is <<row, column>>.  A Piece is a record                     *)
(* [id, kind, positions]; a State is the tuple of its pieces.  The Python  *)
(* pieces are NamedTuples (id, positions), so equality of pieces and of    *)
(* states is structural; the kind (the Python class) is a function of the  *)
(* id here (waves are numbered, boats are lettered).                       *)
(***************************************************************************)
EXTENDS Integers, Sequences, FiniteSets, TLC

\* ------------------------------------------------------------------------
\* Board constants
\* ------------------------------------------------------------------------
HEIGHT == 8
WIDTH == 9
PORT == << <<7, 5>>, <<6, 5>> >>
RED_BOAT_ID == "X"
GAP == "-"
BLOCK == "#"

\* ------------------------------------------------------------------------
\* Directions
\* ------------------------------------------------------------------------
UP == "U"
DOWN == "D"
LEFT == "L"
RIGHT == "R"

Cardinal == <<UP, DOWN, LEFT, RIGHT>>

\* deltas under which a step LEFT or RIGHT also drifts one row down
DELTASWithDrift(d) ==
    CASE d = LEFT -> <<1, -1>>
      [] d = RIGHT -> <<1, 1>>
      [] d = UP -> <<-1, 0>>
      [] d = DOWN -> <<1, 0>>

\* Cardinal.DELTAS
DELTAS(d) ==
    CASE d = LEFT -> <<0, -1>>
      [] d = RIGHT -> <<0, 1>>
      [] d = UP -> <<-1, 0>>
      [] d = DOWN -> <<1, 0>>

OPPOSITES(d) ==
    CASE d = LEFT -> RIGHT
      [] d = RIGHT -> LEFT
      [] d = UP -> DOWN
      [] d = DOWN -> UP

\* Python's tuple(...) of a generator expression: the elements, computed once
Tuple(f) == f \o <<>>

PositionAdd(position, delta) == <<position[1] + delta[1], position[2] + delta[2]>>

\* a transform that takes only the first position along
TransformFirstOnly(d, positions) ==
    Tuple([i \in 1..Len(positions) |->
        IF i = 1 THEN PositionAdd(positions[i], DELTAS(d)) ELSE positions[i]])

\* a transform that returns the shifted cells back to front
TransformBackToFront(d, positions) ==
    Tuple([i \in 1..Len(positions) |->
        PositionAdd(positions[Len(positions) + 1 - i], DELTAS(d))])

\* Cardinal.transform
Transform(d, positions) ==
    Tuple([i \in 1..Len(positions) |-> PositionAdd(positions[i], DELTAS(d))])

\* ------------------------------------------------------------------------
\* Pieces
\* ------------------------------------------------------------------------
Boat(id, positions) == [id |-> id, kind |-> "Boat", positions |-> positions]
Wave(id, positions) == [id |-> id, kind |-> "Wave", positions |-> positions]

\* directions under which a wave may move as a boat does
DirectionsOfABoat(piece) == Cardinal

\* Boat.directions, Wave.directions
Directions(piece) ==
    IF piece.kind = "Boat" THEN Cardinal ELSE <<LEFT, RIGHT>>

SeqToSet(s) == {s[i] : i \in 1..Len(s)}

\* a move that translates the piece by two steps
PieceMoveTwice(piece, d) ==
    [piece EXCEPT !.positions = Transform(d, Transform(d, piece.positions))]

\* Piece.move, for a direction the piece allows
PieceMove(piece, d) ==
    [piece EXCEPT !.positions = Transform(d, piece.positions)]

\* a collision test that leaves the kinds out: any two pieces on one cell
CollidesWithAnyKind(self, piece) ==
    /\ self.id # piece.id
    /\ SeqToSet(self.positions) \cap SeqToSet(piece.positions) # {}

\* a collision test under which only waves push
CollidesWithBoatAhead(self, piece) ==
    /\ self.kind = "Wave" /\ piece.kind = "Boat"
    /\ SeqToSet(self.positions) \cap SeqToSet(piece.positions) # {}

\* Piece.collides_with
CollidesWith(self, piece) ==
    /\ self.kind # piece.kind
    /\ SeqToSet(self.positions) \cap SeqToSet(piece.positions) # {}

\* a rendering that leaves the boats out
CharacterOfWavesOnly(piece, position) ==
    IF piece.kind = "Wave" THEN BLOCK ELSE GAP

\* Piece.character
Character(piece, position) ==
    IF piece.kind = "Wave" THEN BLOCK
    ELSE IF piece.id = RED_BOAT_ID /\ piece.positions[1] = position
         THEN "x"
         ELSE piece.id


\* ------------------------------------------------------------------------
\* State: validity, goal test, lookup
\* ------------------------------------------------------------------------
RECURSIVE AllPositionsFrom(_, _)
AllPositionsFrom(pieces, i) ==
    IF i > Len(pieces) THEN <<>>
    ELSE pieces[i].positions \o AllPositionsFrom(pieces, i + 1)

AllPositions(state) == AllPositionsFrom(state, 1)

HasCollision(state) ==
    LET positions_list == AllPositions(state)
    IN  Len(positions_list) # Cardinality(SeqToSet(positions_list))

\* a bounds test that looks at the rows only
HasPieceOutOfRows(state) ==
    \E i \in 1..Len(state) : \E j \in 1..Len(state[i].positions) :
        state[i].positions[j][1] \notin 0..(HEIGHT - 1)

\* some row or column is below 0 or not below the board's size
HasPieceOutOfBounds(state) ==
    ~(SeqToSet(AllPositions(state)) \subseteq (0..(HEIGHT - 1)) \X (0..(WIDTH - 1)))

\* a validity test that forgets the edges of the board
IsValidIgnoringBounds(state) == ~HasCollision(state)

\* State.is_valid
IsValid(state) == ~HasCollision(state) /\ ~HasPieceOutOfBounds(state)

FindPiece(state, id) ==
    LET first == CHOOSE i \in 1..Len(state) :
                     /\ state[i].id = id
                     /\ \A j \in 1..(i - 1) : state[j].id # id
    IN  state[first]

\* a goal test on the rows alone, whichever the column
IsSolvedOnRows(state) ==
    \A j \in 1..Len(PORT) :
        /\ j <= Len(FindPiece(state, RED_BOAT_ID).positions)
        /\ FindPiece(state, RED_BOAT_ID).positions[j][1] = PORT[j][1]

\* a goal test on the cells alone, whichever of them is the front
IsSolvedOnCells(state) ==
    SeqToSet(FindPiece(state, RED_BOAT_ID).positions) = SeqToSet(PORT)

\* State.is_solved
IsSolved(state) == FindPiece(state, RED_BOAT_ID).positions = PORT

\* ------------------------------------------------------------------------
\* State.move: vertical replacement and horizontal push propagation
\* ------------------------------------------------------------------------
MaxPushIter == 12

\* a vertical move that takes every piece of the moved piece's kind along
PushWithoutCollisionOfKind(state, piece, d) ==
    Tuple([i \in 1..Len(state) |->
            IF state[i].kind = piece.kind THEN PieceMove(state[i], d) ELSE state[i]])

\* State._push_without_collision
PushWithoutCollision(state, piece, d) ==
    LET new_piece == PieceMove(piece, d)
    IN  Tuple([i \in 1..Len(state) |->
                IF state[i].id = new_piece.id THEN new_piece ELSE state[i]])

IndexOf(pieces, piece) ==
    CHOOSE i \in 1..Len(pieces) :
        /\ pieces[i] = piece
        /\ \A j \in 1..(i - 1) : pieces[j] # piece

\* the inner for-loop of _push: scan the working list in order and append
\* every colliding piece that is not currently in the queue
RECURSIVE ScanOthers(_, _, _, _)
ScanOthers(pieces, new_piece, queue, i) ==
    IF i > Len(pieces) THEN queue
    ELSE IF pieces[i] \notin SeqToSet(queue) /\ CollidesWith(new_piece, pieces[i])
         THEN ScanOthers(pieces, new_piece, Append(queue, pieces[i]), i + 1)
         ELSE ScanOthers(pieces, new_piece, queue, i + 1)

\* an iteration whose scan stops at the first piece it appends
PushIterFirstCollisionOnly(pieces, queue, d) ==
    LET old_piece == Head(queue)
        new_piece == PieceMove(old_piece, d)
        pieces2 == [pieces EXCEPT ![IndexOf(pieces, old_piece)] = new_piece]
        scanned == ScanOthers(pieces2, new_piece, Tail(queue), 1)
    IN  [pieces |-> pieces2,
         queue |-> SubSeq(scanned, 1, IF Len(scanned) > Len(queue) - 1
                                      THEN Len(queue) ELSE Len(scanned)),
         moved |-> old_piece.id]

\* one iteration of the while-loop of _push
PushIter(pieces, queue, d) ==
    LET old_piece == Head(queue)
        new_piece == PieceMove(old_piece, d)
        pieces2 == [pieces EXCEPT ![IndexOf(pieces, old_piece)] = new_piece]
    IN  [pieces |-> pieces2,
         queue |-> ScanOthers(pieces2, new_piece, Tail(queue), 1),
         moved |-> old_piece.id]

\* the while-loop of _push, cut after fuel iterations; the queue of the
\* result is empty iff the loop drained its queue within the fuel
RECURSIVE PushRun(_, _, _, _)
PushRun(pieces, queue, d, fuel) ==
    IF queue = <<>> \/ fuel = 0 THEN [pieces |-> pieces, queue |-> queue]
    ELSE LET r == PushIter(pieces, queue, d)
         IN  PushRun(r.pieces, r.queue, d, fuel - 1)

Push(state, piece, d) == PushRun(state, <<piece>>, d, MaxPushIter).pieces

PushDrains(state, piece, d) ==
    PushRun(state, <<piece>>, d, MaxPushIter).queue = <<>>

Move(state, piece, d) ==
    IF d \in {UP, DOWN} THEN PushWithoutCollision(state, piece, d)
    ELSE Push(state, piece, d)

Undo(state, piece, d) == Move(state, piece, OPPOSITES(d))

\* the calls of Piece.move that State.move makes, in order, each as
\* <<piece, direction>>: one call for UP and DOWN, one call per iteration
\* of the while-loop of _push for LEFT and RIGHT
RECURSIVE PushCalls(_, _, _, _)
PushCalls(pieces, queue, d, fuel) ==
    IF queue = <<>> \/ fuel = 0 THEN <<>>
    ELSE LET r == PushIter(pieces, queue, d)
         IN  << <<Head(queue), d>> >> \o PushCalls(r.pieces, r.queue, d, fuel - 1)

MoveCalls(state, piece, d) ==
    IF d \in {UP, DOWN} THEN << <<piece, d>> >>
    ELSE PushCalls(state, <<piece>>, d, MaxPushIter)

\* Piece.move raises ValueError for a direction outside piece.directions
RaisesValueError(piece, d) == d \notin SeqToSet(Directions(piece))

\* ------------------------------------------------------------------------
\* State.__str__: the character grid; later pieces overwrite earlier ones,
\* negative indices wrap as Python list indices do, an index past the end
\* raises IndexError
\* ------------------------------------------------------------------------
WrapIndex(i, n) == IF i < 0 THEN i + n ELSE i

Render(state) ==
    LET cells == {<<i, j>> : i \in 1..Len(state), j \in 1..(HEIGHT * WIDTH)}
        writes == {w \in cells : w[2] <= Len(state[w[1]].positions)}
        pos(w) == state[w[1]].positions[w[2]]
        bad(w) == \/ pos(w)[1] >= HEIGHT \/ pos(w)[1] < -HEIGHT
                  \/ pos(w)[2] >= WIDTH \/ pos(w)[2] < -WIDTH
        target(w) == <<WrapIndex(pos(w)[1], HEIGHT), WrapIndex(pos(w)[2], WIDTH)>>
        later(a, b) == a[1] > b[1] \/ (a[1] = b[1] /\ a[2] >= b[2])
    IN  IF \E w \in writes : bad(w) THEN "IndexError"
        ELSE [rc \in (0..(HEIGHT - 1)) \X (0..(WIDTH - 1)) |->
                LET ws == {w \in writes : target(w) = rc}
                IN  IF ws = {} THEN GAP
                    ELSE LET last == CHOOSE w \in ws : \A v \in ws : later(w, v)
                         IN  Character(state[last[1]], pos(last))]

\* ------------------------------------------------------------------------
\* State.from_string: the board text is a tuple of lines, a line a tuple
\* of one-character strings
\* ------------------------------------------------------------------------
IsLower(character) == character \in {"x", "a", "b"}

ToUpper(character) ==
    CASE character = "x" -> "X"
      [] character = "a" -> "A"
      [] character = "b" -> "B"
      [] OTHER -> character

\* The scan order of from_string: row by row, left to right
ScanIndex(position) == position[1] * (WIDTH + 2) + position[2]

\* the elements of a finite set of positions, in scan order
InScanOrder(positions) ==
    [k \in 1..Cardinality(positions) |->
        CHOOSE p \in positions :
            Cardinality({q \in positions : ScanIndex(q) < ScanIndex(p)}) = k - 1]

Reverse(s) == [k \in 1..Len(s) |-> s[Len(s) + 1 - k]]

CellsOf(lines) ==
    {<<row, column>> : row \in 0..(Len(lines) - 1), column \in 0..(WIDTH + 1)}

CharAt(lines, position) ==
    IF position[2] < Len(lines[position[1] + 1])
    THEN lines[position[1] + 1][position[2] + 1]
    ELSE GAP

\* wave_positions of one line: the '#' cells left to right
WavePositions(lines, row) ==
    InScanOrder({p \in CellsOf(lines) : p[1] = row /\ CharAt(lines, p) = BLOCK})

\* boat_positions[id]: every lowercase cell was inserted at the front and
\* every other cell appended, so the list is the lowercase cells in reverse
\* scan order followed by the other cells in scan order
BoatPositions(lines, id) ==
    LET mine == {p \in CellsOf(lines) :
                    CharAt(lines, p) \notin {BLOCK, GAP} /\ ToUpper(CharAt(lines, p)) = id}
    IN  Reverse(InScanOrder({p \in mine : IsLower(CharAt(lines, p))}))
            \o InScanOrder({p \in mine : ~IsLower(CharAt(lines, p))})

\* the keys of boat_positions in insertion order: by first cell in scan order
BoatIds(lines) ==
    LET firsts == {p \in CellsOf(lines) :
                      /\ CharAt(lines, p) \notin {BLOCK, GAP}
                      /\ \A q \in CellsOf(lines) :
                            (/\ CharAt(lines, q) \notin {BLOCK, GAP}
                             /\ ToUpper(CharAt(lines, q)) = ToUpper(CharAt(lines, p)))
                                => ScanIndex(p) <= ScanIndex(q)}
        ordered == InScanOrder(firsts)
    IN  [k \in 1..Len(ordered) |-> ToUpper(CharAt(lines, ordered[k]))]

\* pieces.values(): the waves "1".."n" in row order, then the boats
FromString(lines) ==
    [row \in 1..Len(lines) |-> Wave(ToString(row), WavePositions(lines, row - 1))]
        \o [k \in 1..Len(BoatIds(lines)) |->
               Boat(BoatIds(lines)[k], BoatPositions(lines, BoatIds(lines)[k]))]

\* ------------------------------------------------------------------------
\* Board texts
\* ------------------------------------------------------------------------
\* red boat one step above the port, every wave immobile
\*   #########
\*   #########
\*   #########
\*   #########
\*   #########
\*   #####X###
\*   #####x###
\*   #####-###
BoardSingleStep ==
    << <<"#", "#", "#", "#", "#", "#", "#", "#", "#">>,
       <<"#", "#", "#", "#", "#", "#", "#", "#", "#">>,
       <<"#", "#", "#", "#", "#", "#", "#", "#", "#">>,
       <<"#", "#", "#", "#", "#", "#", "#", "#", "#">>,
       <<"#", "#", "#", "#", "#", "#", "#", "#", "#">>,
       <<"#", "#", "#", "#", "#", "X", "#", "#", "#">>,
       <<"#", "#", "#", "#", "#", "x", "#", "#", "#">>,
       <<"#", "#", "#", "#", "#", "-", "#", "#", "#">> >>

\* red boat three steps above the port
\*   #########
\*   #########
\*   #########
\*   #####X###
\*   #####x###
\*   #####-###
\*   #####-###
\*   #####-###
BoardThreeDown ==
    << <<"#", "#", "#", "#", "#", "#", "#", "#", "#">>,
       <<"#", "#", "#", "#", "#", "#", "#", "#", "#">>,
       <<"#", "#", "#", "#", "#", "#", "#", "#", "#">>,
       <<"#", "#", "#", "#", "#", "X", "#", "#", "#">>,
       <<"#", "#", "#", "#", "#", "x", "#", "#", "#">>,
       <<"#", "#", "#", "#", "#", "-", "#", "#", "#">>,
       <<"#", "#", "#", "#", "#", "-", "#", "#", "#">>,
       <<"#", "#", "#", "#", "#", "-", "#", "#", "#">> >>

\* red boat already in the port, nothing can move
\*   #########
\*   #########
\*   #########
\*   #########
\*   #########
\*   #########
\*   #####X###
\*   #####x###
BoardSolvedStuck ==
    << <<"#", "#", "#", "#", "#", "#", "#", "#", "#">>,
       <<"#", "#", "#", "#", "#", "#", "#", "#", "#">>,
       <<"#", "#", "#", "#", "#", "#", "#", "#", "#">>,
       <<"#", "#", "#", "#", "#", "#", "#", "#", "#">>,
       <<"#", "#", "#", "#", "#", "#", "#", "#", "#">>,
       <<"#", "#", "#", "#", "#", "#", "#", "#", "#">>,
       <<"#", "#", "#", "#", "#", "X", "#", "#", "#">>,
       <<"#", "#", "#", "#", "#", "x", "#", "#", "#">> >>

\* red boat already in the port, wave 1 and boat A can move
\*   A--######
\*   #########
\*   #########
\*   #########
\*   #########
\*   #########
\*   #####X###
\*   #####x###
BoardSolvedFree ==
    << <<"A", "-", "-", "#", "#", "#", "#", "#", "#">>,
       <<"#", "#", "#", "#", "#", "#", "#", "#", "#">>,
       <<"#", "#", "#", "#", "#", "#", "#", "#", "#">>,
       <<"#", "#", "#", "#", "#", "#", "#", "#", "#">>,
       <<"#", "#", "#", "#", "#", "#", "#", "#", "#">>,
       <<"#", "#", "#", "#", "#", "#", "#", "#", "#">>,
       <<"#", "#", "#", "#", "#", "X", "#", "#", "#">>,
       <<"#", "#", "#", "#", "#", "x", "#", "#", "#">> >>

\* red boat walled in away from the port
\*   #########
\*   #########
\*   #X---####
\*   #x---####
\*   #########
\*   #########
\*   #########
\*   #########
BoardWalled ==
    << <<"#", "#", "#", "#", "#", "#", "#", "#", "#">>,
       <<"#", "#", "#", "#", "#", "#", "#", "#", "#">>,
       <<"#", "X", "-", "-", "-", "#", "#", "#", "#">>,
       <<"#", "x", "-", "-", "-", "#", "#", "#", "#">>,
       <<"#", "#", "#", "#", "#", "#", "#", "#", "#">>,
       <<"#", "#", "#", "#", "#", "#", "#", "#", "#">>,
       <<"#", "#", "#", "#", "#", "#", "#", "#", "#">>,
       <<"#", "#", "#", "#", "#", "#", "#", "#", "#">> >>

\* wave 7 can push the red boat into the port
\*   #########
\*   #########
\*   #########
\*   #########
\*   #########
\*   #########
\*   -#----X##
\*   -#-#--x--
BoardWavePush ==
    << <<"#", "#", "#", "#", "#", "#", "#", "#", "#">>,
       <<"#", "#", "#", "#", "#", "#", "#", "#", "#">>,
       <<"#", "#", "#", "#", "#", "#", "#", "#", "#">>,
       <<"#", "#", "#", "#", "#", "#", "#", "#", "#">>,
       <<"#", "#", "#", "#", "#", "#", "#", "#", "#">>,
       <<"#", "#", "#", "#", "#", "#", "#", "#", "#">>,
       <<"-", "#", "-", "-", "-", "-", "X", "#", "#">>,
       <<"-", "#", "-", "#", "-", "-", "x", "-", "-">> >>

\* the red boat can push wave 7 on its way into the port
\*   #########
\*   #########
\*   #########
\*   #########
\*   #########
\*   #########
\*   -##--#X-#
\*   #--#--x##
BoardBoatPush ==
    << <<"#", "#", "#", "#", "#", "#", "#", "#", "#">>,
       <<"#", "#", "#", "#", "#", "#", "#", "#", "#">>,
       <<"#", "#", "#", "#", "#", "#", "#", "#", "#">>,
       <<"#", "#", "#", "#", "#", "#", "#", "#", "#">>,
       <<"#", "#", "#", "#", "#", "#", "#", "#", "#">>,
       <<"#", "#", "#", "#", "#", "#", "#", "#", "#">>,
       <<"-", "#", "#", "-", "-", "#", "X", "-", "#">>,
       <<"#", "-", "-", "#", "-", "-", "x", "#", "#">> >>

\* boats A and X interlocked with waves 6 and 7
\*   #########
\*   #########
\*   ---##-###
\*   #------##
\*   #########
\*   -#A##-X#-
\*   #-A-#-x##
\*   -#A-----#
BoardLoop ==
    << <<"#", "#", "#", "#", "#", "#", "#", "#", "#">>,
       <<"#", "#", "#", "#", "#", "#", "#", "#", "#">>,
       <<"-", "-", "-", "#", "#", "-", "#", "#", "#">>,
       <<"#", "-", "-", "-", "-", "-", "-", "#", "#">>,
       <<"#", "#", "#", "#", "#", "#", "#", "#", "#">>,
       <<"-", "#", "A", "#", "#", "-", "X", "#", "-">>,
       <<"#", "-", "A", "-", "#", "-", "x", "#", "#">>,
       <<"-", "#", "A", "-", "-", "-", "-", "-", "#">> >>

\* the four bottom rows of the reference card, the rest walled
\*   #########
\*   #########
\*   #########
\*   #########
\*   --#-#-###
\*   --#-#-#-#
\*   -##X#--#-
\*   ###x#-#--
BoardMiniCard ==
    << <<"#", "#", "#", "#", "#", "#", "#", "#", "#">>,
       <<"#", "#", "#", "#", "#", "#", "#", "#", "#">>,
       <<"#", "#", "#", "#", "#", "#", "#", "#", "#">>,
       <<"#", "#", "#", "#", "#", "#", "#", "#", "#">>,
       <<"-", "-", "#", "-", "#", "-", "#", "#", "#">>,
       <<"-", "-", "#", "-", "#", "-", "#", "-", "#">>,
       <<"-", "#", "#", "X", "#", "-", "-", "#", "-">>,
       <<"#", "#", "#", "x", "#", "-", "#", "-", "-">> >>


\* reference card 3: the board of fresh_start/solve.py, red boat front in row 7
\*   --#-#-###
\*   --#-###-#
\*   --#-##-##
\*   --#-#-###
\*   --#-#-###
\*   --#-#-#-#
\*   -##X#--#-
\*   ###x#-#--
BoardCard3 ==
    << <<"-", "-", "#", "-", "#", "-", "#", "#", "#">>,
       <<"-", "-", "#", "-", "#", "#", "#", "-", "#">>,
       <<"-", "-", "#", "-", "#", "#", "-", "#", "#">>,
       <<"-", "-", "#", "-", "#", "-", "#", "#", "#">>,
       <<"-", "-", "#", "-", "#", "-", "#", "#", "#">>,
       <<"-", "-", "#", "-", "#", "-", "#", "-", "#">>,
       <<"-", "#", "#", "X", "#", "-", "-", "#", "-">>,
       <<"#", "#", "#", "x", "#", "-", "#", "-", "-">> >>

\* boats A and X side by side: wave 7 moving LEFT pushes X onto A, and X
\* moving LEFT lands on A
\*   #########
\*   #########
\*   #########
\*   #########
\*   #########
\*   --A---#--
\*   -#AX#----
\*   ---x--#--
BoardBoatsAbreast ==
    << <<"#", "#", "#", "#", "#", "#", "#", "#", "#">>,
       <<"#", "#", "#", "#", "#", "#", "#", "#", "#">>,
       <<"#", "#", "#", "#", "#", "#", "#", "#", "#">>,
       <<"#", "#", "#", "#", "#", "#", "#", "#", "#">>,
       <<"#", "#", "#", "#", "#", "#", "#", "#", "#">>,
       <<"-", "-", "A", "-", "-", "-", "#", "-", "-">>,
       <<"-", "#", "A", "X", "#", "-", "-", "-", "-">>,
       <<"-", "-", "-", "x", "-", "-", "#", "-", "-">> >>

SearchBoards ==
    {BoardSingleStep, BoardThreeDown, BoardSolvedStuck, BoardSolvedFree,
     BoardWalled, BoardWavePush, BoardBoatPush, BoardLoop, BoardMiniCard,
     BoardBoatsAbreast}

\* ------------------------------------------------------------------------
\* Moves and solutions
\* ------------------------------------------------------------------------
NewMove(piece_id, direction, distance) ==
    [piece_id |-> piece_id, direction |-> direction, distance |-> distance]

\* Python's None, as the value of state_map[initial_state]
None == NewMove("", "", 0)

\* "no state": final_state before a search returns
NoState == <<>>

\* the reference to the Move object generate creates itself (see Deref)
NoRef == <<>>

\* a merge rule that forgets the direction of travel
CanMergeWithAnyDirection(self, other) ==
    self.piece_id = other.piece_id

\* a merge rule that never lets two moves merge
CanMergeWithNothing(self, other) == FALSE

\* Move.can_merge_with
CanMergeWith(self, other) ==
    self.piece_id = other.piece_id /\ self.direction = other.direction

RECURSIVE SumDistances(_, _)
SumDistances(step_list, i) ==
    IF i > Len(step_list) THEN 0
    ELSE step_list[i].distance + SumDistances(step_list, i + 1)

StepCount(step_list) == Len(step_list)
MoveCount(step_list) == SumDistances(step_list, 1)

VARIABLES
    initial_state,   \* Puzzle.initial_state
    current_state,   \* BreadthFirstSearch.current_state
    queue,           \* BreadthFirstSearch.queue
    state_map,       \* BreadthFirstSearch.state_map: State -> Move or None
    last_depth_size, \* find_solved_state: states of the current depth still to expand
    depth,           \* _Logger._depth: the depth of the states being discovered
    final_state,     \* Puzzle.final_state
    moves,           \* MoveGenerator.generate: the list, as references (see Deref)
    last_step,       \* the Move object generate creates for the final step
    gen_state,       \* MoveGenerator.generate: current_state
    gen_path,        \* the states generate's loop has taken as current_state so far
    pc,              \* "search", "generate", "done" or "hang"
    result,          \* "none", "solution", "no_solution", "key_error", "attribute_error"
    solve_calls,     \* number of calls of Puzzle.solve on this Puzzle so far
    first_outcome,   \* what the first of these calls returned or raised
    origin,          \* a State on which a client calls move
    move_piece,      \* the piece argument of that call
    move_dir,        \* the direction argument of that call
    moved_state,     \* the State that call returned
    undone_state,    \* the State undo returned on moved_state
    work_pieces,     \* _push: pieces
    work_queue,      \* _push: queue
    work_moved,      \* ids of the pieces _push has translated so far, in order
    chain,           \* number of moves applied to reach origin
    phase            \* "idle", "start", "pushing", "moved", "unpushing", "undone"

search_vars ==
    <<initial_state, current_state, queue, state_map, last_depth_size, depth, final_state,
      moves, last_step, gen_state, gen_path, pc, result, solve_calls, first_outcome>>

move_vars ==
    <<origin, move_piece, move_dir, moved_state, undone_state,
      work_pieces, work_queue, work_moved, chain, phase>>

vars == <<search_vars, move_vars>>

\* ------------------------------------------------------------------------
\* BreadthFirstSearch
\* ------------------------------------------------------------------------
\* The key of a State in the search's deque and dict.  Every state of one
\* puzzle is the initial state with its pieces translated (Piece.move keeps
\* a piece's id and shape), so two states are equal exactly when the first
\* positions of their pieces are: the containers hold these instead of the
\* whole tuple of pieces.
Key(state) ==
    Tuple([k \in 1..(2 * Len(state)) |->
        LET piece == state[(k + 1) \div 2]
        IN  IF piece.positions = <<>> THEN 0
            ELSE piece.positions[1][2 - (k % 2)]])

\* the State with this key, given the initial state of the puzzle
StateOf(initial, key) ==
    Tuple([i \in 1..Len(initial) |->
        LET piece == initial[i]
        IN  IF piece.positions = <<>> THEN piece
            ELSE [piece EXCEPT !.positions =
                    Tuple([j \in 1..Len(piece.positions) |->
                        << piece.positions[j][1] + key[2 * i - 1] - piece.positions[1][1],
                           piece.positions[j][2] + key[2 * i] - piece.positions[1][2] >>])]])

\* a remove that leaves the list as it is
RemoveNothing(pieces, piece) == pieces

\* list.remove: the list without the first entry equal to piece
RemoveFirst(pieces, piece) ==
    LET k == IndexOf(pieces, piece)
    IN  Tuple([i \in 1..(Len(pieces) - 1) |-> IF i < k THEN pieces[i] ELSE pieces[i + 1]])

\* an order that keeps the piece moved last and drops the others
GetOrderedPiecesLastOnly(state, map) ==
    LET last_move == map[Key(state)]
    IN  IF last_move # None
        THEN <<FindPiece(state, last_move.piece_id)>>
        ELSE state

\* BreadthFirstSearch.get_ordered_pieces
GetOrderedPieces(state, map) ==
    LET last_move == map[Key(state)]
    IN  IF last_move # None
        THEN LET last_moved_piece == FindPiece(state, last_move.piece_id)
             IN  <<last_moved_piece>> \o RemoveFirst(state, last_moved_piece)
        ELSE state

\* the (piece, direction) pairs in the order the two nested for-loops visit them
RECURSIVE PairsFrom(_, _)
PairsFrom(pieces, i) ==
    IF i > Len(pieces) THEN <<>>
    ELSE LET ds == Directions(pieces[i])
         IN  [k \in 1..Len(ds) |-> <<pieces[i], ds[k]>>] \o PairsFrom(pieces, i + 1)

\* new_state not in self.state_map
NotVisited(map, state) == Key(state) \notin DOMAIN map

\* the body of the while-loop of find_solved_state from the for-loops on:
\* acc = [queue, state_map, found]; found is the state returned from
\* inside the loops, or NoState
RECURSIVE ExpandFrom(_, _, _, _)
ExpandFrom(current, pairs, k, acc) ==
    IF k > Len(pairs) THEN acc
    ELSE LET piece == pairs[k][1]
             direction == pairs[k][2]
             new_state == Move(current, piece, direction)
         IN  IF IsValid(new_state) /\ NotVisited(acc.state_map, new_state)
             THEN LET acc2 ==
                        [queue |-> Append(acc.queue, Key(new_state)),
                         state_map |-> (Key(new_state) :> NewMove(piece.id, direction, 1))
                                          @@ acc.state_map,
                         found |-> NoState]
                  IN  IF IsSolved(new_state)
                      THEN [acc2 EXCEPT !.found = new_state]
                      ELSE ExpandFrom(current, pairs, k + 1, acc2)
             ELSE ExpandFrom(current, pairs, k + 1, acc)

Popleft(q) == Tail(q)

\* the for-loops on the state just taken from the queue
LoopBody(current, rest, map) ==
    ExpandFrom(current, PairsFrom(GetOrderedPieces(current, map), 1), 1,
               [queue |-> rest, state_map |-> map, found |-> NoState])

\* The variables of one call of Puzzle.solve as a record, and the step that
\* sets them to a record
Now ==
    [initial_state |-> initial_state, current_state |-> current_state,
     queue |-> queue, state_map |-> state_map,
     last_depth_size |-> last_depth_size, depth |-> depth,
     final_state |-> final_state, moves |-> moves, last_step |-> last_step,
     gen_state |-> gen_state, gen_path |-> gen_path, pc |-> pc, result |-> result]

\* assignments after which the deque may hold its states in either order
BecomesInEitherOrder(s) ==
    /\ initial_state' = s.initial_state
    /\ current_state' = s.current_state
    /\ queue' \in {s.queue, Tuple(Reverse(s.queue))}
    /\ state_map' = s.state_map
    /\ last_depth_size' = s.last_depth_size
    /\ depth' = s.depth
    /\ final_state' = s.final_state
    /\ moves' = s.moves
    /\ last_step' = s.last_step
    /\ gen_state' = s.gen_state
    /\ gen_path' = s.gen_path
    /\ pc' = s.pc
    /\ result' = s.result
    /\ UNCHANGED <<solve_calls, first_outcome>>

Becomes(s) ==
    /\ initial_state' = s.initial_state
    /\ current_state' = s.current_state
    /\ queue' = s.queue
    /\ state_map' = s.state_map
    /\ last_depth_size' = s.last_depth_size
    /\ depth' = s.depth
    /\ final_state' = s.final_state
    /\ moves' = s.moves
    /\ last_step' = s.last_step
    /\ gen_state' = s.gen_state
    /\ gen_path' = s.gen_path
    /\ pc' = s.pc
    /\ result' = s.result
    /\ UNCHANGED <<solve_calls, first_outcome>>

\* an iteration that turns the deque round before it takes a state
AfterExpandFromTheOtherEnd(s) ==
    LET t == [s EXCEPT !.queue = Tuple(Reverse(s.queue))]
        current == StateOf(t.initial_state, Head(t.queue))
        r == LoopBody(current, Popleft(t.queue), t.state_map)
    IN  IF r.found # NoState
        THEN [t EXCEPT !.current_state = current, !.queue = r.queue,
                       !.state_map = r.state_map, !.final_state = r.found,
                       !.pc = "generate", !.moves = <<NoRef>>,
                       !.last_step = NewMove(RED_BOAT_ID, DOWN, 2),
                       !.gen_state = r.found, !.gen_path = <<>>]
        ELSE [t EXCEPT !.current_state = current, !.queue = r.queue,
                       !.state_map = r.state_map,
                       !.last_depth_size = IF @ - 1 = 0 THEN Len(r.queue) ELSE @ - 1,
                       !.depth = IF t.last_depth_size - 1 = 0 THEN @ + 1 ELSE @]

\* one iteration of the while-loop: either it returns the solved state it
\* found (and solve goes on to MoveGenerator.generate, which starts with the
\* fixed final step) or it counts the state off its depth and goes back to
\* the loop test
AfterExpand(s) ==
    LET current == StateOf(s.initial_state, Head(s.queue))
        r == LoopBody(current, Popleft(s.queue), s.state_map)
    IN  IF r.found # NoState
        THEN [s EXCEPT !.current_state = current,
                       !.queue = r.queue,
                       !.state_map = r.state_map,
                       !.final_state = r.found,
                       !.pc = "generate",
                       !.moves = <<NoRef>>,
                       !.last_step = NewMove(RED_BOAT_ID, DOWN, 2),
                       !.gen_state = r.found,
                       !.gen_path = <<>>]
        ELSE [s EXCEPT !.current_state = current,
                       !.queue = r.queue,
                       !.state_map = r.state_map,
                       !.last_depth_size =
                            IF @ - 1 = 0 THEN Len(r.queue) ELSE @ - 1,
                       \* logger.state_space() ends with self._depth += 1
                       !.depth = IF s.last_depth_size - 1 = 0 THEN @ + 1 ELSE @]

Expand ==
    /\ pc = "search"
    /\ Len(queue) > 0
    /\ \E s \in {AfterExpand(Now)} : Becomes(s)
    /\ UNCHANGED move_vars

\* the frontier drained: raise Exception('Puzzle has no solution.')
AfterNoSolution(s) == [s EXCEPT !.pc = "done", !.result = "no_solution"]

NoSolution ==
    /\ pc = "search"
    /\ Len(queue) = 0
    /\ \E s \in {AfterNoSolution(Now)} : Becomes(s)
    /\ UNCHANGED move_vars

\* ------------------------------------------------------------------------
\* MoveGenerator.generate
\*
\* The list holds Move objects.  The first object created is the fixed final
\* step; every other element is the very object stored in state_map, so
\* Move.merge on the head of the list also changes the map entry.  An
\* element of moves is therefore a reference: NoRef for the final step,
\* otherwise the key of the map entry it is.
\* ------------------------------------------------------------------------
Deref(map, last, ref) == IF ref = NoRef THEN last ELSE map[ref]

Steps(map, last, refs) == [i \in 1..Len(refs) |-> Deref(map, last, refs[i])]

\* one iteration of the while-loop
AfterGenerateStep(s) ==
    LET path == Append(s.gen_path, s.gen_state)
    IN  IF Key(s.gen_state) \notin DOMAIN s.state_map
        THEN \* self.state_map[current_state] raises KeyError
             [s EXCEPT !.gen_path = path, !.pc = "done", !.result = "key_error"]
        ELSE LET previous_move == s.state_map[Key(s.gen_state)]
                 head == Deref(s.state_map, s.last_step, s.moves[1])
                 undone == Undo(s.gen_state,
                                FindPiece(s.gen_state, previous_move.piece_id),
                                previous_move.direction)
             IN  IF previous_move = None
                 THEN \* can_merge_with(None) raises AttributeError
                      [s EXCEPT !.gen_path = path, !.pc = "done",
                                !.result = "attribute_error"]
                 ELSE IF Len(s.moves) > 0 /\ CanMergeWith(head, previous_move)
                 THEN \* moves[0].merge(previous_move)
                      IF s.moves[1] = NoRef
                      THEN [s EXCEPT !.gen_path = path,
                                     !.last_step.distance = @ + previous_move.distance,
                                     !.gen_state = undone]
                      ELSE [s EXCEPT !.gen_path = path,
                                     !.state_map[s.moves[1]].distance =
                                          @ + previous_move.distance,
                                     !.gen_state = undone]
                 ELSE \* moves.insert(0, previous_move)
                      [s EXCEPT !.gen_path = path,
                                !.moves = <<Key(s.gen_state)>> \o @,
                                !.gen_state = undone]

GenerateStep ==
    /\ pc = "generate"
    /\ gen_state # initial_state
    /\ gen_state \notin SeqToSet(gen_path)
    /\ \E s \in {AfterGenerateStep(Now)} : Becomes(s)
    /\ UNCHANGED move_vars

\* The loop is back at a state it has already taken as current_state.  The
\* next current_state depends on current_state alone (its map entry's piece
\* and direction never change), so from here on the loop repeats the same
\* states forever: it met neither the initial state nor a missing key the
\* first time round.  solve never returns.
AfterGenerateHangs(s) == [s EXCEPT !.pc = "hang"]

GenerateHangs ==
    /\ pc = "generate"
    /\ gen_state # initial_state
    /\ gen_state \in SeqToSet(gen_path)
    /\ \E s \in {AfterGenerateHangs(Now)} : Becomes(s)
    /\ UNCHANGED move_vars

\* the loop test fails: return moves, and solve returns Solution(moves)
AfterGenerateReturn(s) == [s EXCEPT !.pc = "done", !.result = "solution"]

GenerateReturn ==
    /\ pc = "generate"
    /\ gen_state = initial_state
    /\ \E s \in {AfterGenerateReturn(Now)} : Becomes(s)
    /\ UNCHANGED move_vars

\* the Solution solve has returned
Solution == Steps(state_map, last_step, moves)

\* ------------------------------------------------------------------------
\* Puzzle.solve, step by step
\* ------------------------------------------------------------------------
NoOutcome == [result |-> "none", steps |-> <<>>]

SearchIdle ==
    /\ initial_state = NoState
    /\ current_state = NoState
    /\ queue = <<>>
    /\ state_map = <<>>
    /\ last_depth_size = 0
    /\ depth = 0
    /\ final_state = NoState
    /\ moves = <<>>
    /\ last_step = None
    /\ gen_state = NoState
    /\ gen_path = <<>>
    /\ pc = "idle"
    /\ result = "none"
    /\ solve_calls = 0
    /\ first_outcome = NoOutcome

MoveIdle ==
    /\ origin = NoState
    /\ move_piece = Wave("", <<>>)
    /\ move_dir = ""
    /\ moved_state = NoState
    /\ undone_state = NoState
    /\ work_pieces = <<>>
    /\ work_queue = <<>>
    /\ work_moved = <<>>
    /\ chain = 0
    /\ phase = "idle"

\* Puzzle(...) constructed on one of the puzzles and solve about to enter
\* the while-loop: the logger has printed depth 0
SearchInit(puzzles) ==
    /\ initial_state \in puzzles
    /\ current_state = initial_state
    /\ queue = <<Key(initial_state)>>
    /\ state_map = (Key(initial_state) :> None)
    /\ last_depth_size = Len(queue)
    /\ depth = 1
    /\ final_state = NoState
    /\ moves = <<>>
    /\ last_step = None
    /\ gen_state = NoState
    /\ gen_path = <<>>
    /\ pc = "search"
    /\ result = "none"
    /\ solve_calls = 1
    /\ first_outcome = NoOutcome

Init == SearchInit({FromString(b) : b \in SearchBoards}) /\ MoveIdle

Next == Expand \/ NoSolution \/ GenerateStep \/ GenerateHangs \/ GenerateReturn

Spec == Init /\ [][Next]_vars

\* ------------------------------------------------------------------------
\* Puzzle.solve called again on the same Puzzle: find_solved_state starts a
\* new logger and sets last_depth_size from the queue, and goes on with the
\* queue, the visited map and the current state the BreadthFirstSearch
\* object was left with.
\* ------------------------------------------------------------------------
MaxCalls == 2

SolveAgain ==
    /\ pc = "done"
    /\ solve_calls < MaxCalls
    /\ solve_calls' = solve_calls + 1
    /\ first_outcome' =
          IF solve_calls = 1 THEN [result |-> result, steps |-> Solution]
          ELSE first_outcome
    /\ last_depth_size' = Len(queue)
    /\ depth' = 1
    /\ moves' = <<>>
    /\ last_step' = None
    /\ gen_state' = NoState
    /\ gen_path' = <<>>
    /\ pc' = "search"
    /\ result' = "none"
    /\ UNCHANGED <<initial_state, current_state, queue, state_map, final_state>>
    /\ UNCHANGED move_vars

AgainNext == Next \/ SolveAgain

SpecAgain == Init /\ [][AgainNext]_vars

\* ------------------------------------------------------------------------
\* Reachability by valid unit moves, computed level by level and
\* independently of the search's queue and map
\* ------------------------------------------------------------------------
MaxDist == 10

ValidSuccessors(state) ==
    {t \in {Move(state, pd[1], pd[2]) : pd \in SeqToSet(PairsFrom(state, 1))} :
        IsValid(t)}

\* levels[k + 1] = the states reachable from the first level by at most k
\* valid unit moves
RECURSIVE LevelsFrom(_, _)
LevelsFrom(levels, n) ==
    IF n = 0 THEN levels
    ELSE LET last == levels[Len(levels)]
         IN  LevelsFrom(Append(levels, last \cup UNION {ValidSuccessors(t) : t \in last}), n - 1)

Levels(state, n) == LevelsFrom(<<{state}>>, n)

RECURSIVE ReachableFrom(_)
ReachableFrom(seen) ==
    LET more == seen \cup UNION {ValidSuccessors(t) : t \in seen}
    IN  IF more = seen THEN seen ELSE ReachableFrom(more)

\* ------------------------------------------------------------------------
\* Puzzle.solve as one call: the steps above, taken until solve returns,
\* raises or is caught in generate's loop
\* ------------------------------------------------------------------------
MaxSolveSteps == 16384

SolveStep(s) ==
    IF s.pc = "search"
    THEN IF Len(s.queue) > 0 THEN AfterExpand(s) ELSE AfterNoSolution(s)
    ELSE IF s.gen_state = s.initial_state THEN AfterGenerateReturn(s)
    ELSE IF s.gen_state \in SeqToSet(s.gen_path) THEN AfterGenerateHangs(s)
    ELSE AfterGenerateStep(s)

Finished(s) == s.pc \in {"done", "hang"}

\* at most n steps, as two halves
RECURSIVE SolveSteps(_, _)
SolveSteps(s, n) ==
    IF Finished(s) \/ n = 0 THEN s
    ELSE IF n = 1 THEN SolveStep(s)
    ELSE LET half == SolveSteps(s, n \div 2)
         IN  IF Finished(half) THEN half ELSE SolveSteps(half, n - n \div 2)

SolveAll ==
    /\ pc \in {"search", "generate"}
    /\ \E s \in {SolveSteps(Now, MaxSolveSteps)} : Becomes(s)
    /\ UNCHANGED move_vars

\* the puzzles solved in one call: the boards above, the reference card and
\* every position of the mini card up to MaxSetUp valid moves in
MaxSetUp == 4

SolvePuzzles ==
    {FromString(b) : b \in SearchBoards \cup {BoardCard3}}
        \cup Levels(FromString(BoardMiniCard), MaxSetUp)[MaxSetUp + 1]

SolveInit == SearchInit(SolvePuzzles) /\ MoveIdle

SpecSolve == SolveInit /\ [][SolveAll]_vars

\* the same call on the puzzles other than the reference card
QuickPuzzles == SolvePuzzles \ {FromString(BoardCard3)}

QuickInit == SearchInit(QuickPuzzles) /\ MoveIdle

SpecQuick == QuickInit /\ [][SolveAll]_vars

\* ------------------------------------------------------------------------
\* find_solved_state without get_ordered_pieces: the for-loop over the
\* pieces takes list(self.current_state.pieces) as it is.  The search is
\* run from the state BreadthFirstSearch(initial) constructs until it
\* returns or raises.
\* ------------------------------------------------------------------------
SearchStart(initial) ==
    [initial_state |-> initial, current_state |-> initial,
     queue |-> <<Key(initial)>>, state_map |-> (Key(initial) :> None),
     last_depth_size |-> 1, depth |-> 1,
     final_state |-> NoState, moves |-> <<>>, last_step |-> None,
     gen_state |-> NoState, gen_path |-> <<>>, pc |-> "search", result |-> "none"]

StepInTupleOrder(s) ==
    IF Len(s.queue) = 0 THEN AfterNoSolution(s)
    ELSE LET current == StateOf(s.initial_state, Head(s.queue))
             r == ExpandFrom(current, PairsFrom(current, 1), 1,
                             [queue |-> Popleft(s.queue), state_map |-> s.state_map,
                              found |-> NoState])
         IN  IF r.found # NoState
             THEN [s EXCEPT !.current_state = current,
                            !.queue = r.queue,
                            !.state_map = r.state_map,
                            !.final_state = r.found,
                            !.pc = "generate"]
             ELSE [s EXCEPT !.current_state = current,
                            !.queue = r.queue,
                            !.state_map = r.state_map,
                            !.last_depth_size =
                                 IF @ - 1 = 0 THEN Len(r.queue) ELSE @ - 1,
                            !.depth = IF s.last_depth_size - 1 = 0 THEN @ + 1 ELSE @]

\* at most n iterations of the while-loop, as two halves
RECURSIVE StepsInTupleOrder(_, _)
StepsInTupleOrder(s, n) ==
    IF s.pc # "search" \/ n = 0 THEN s
    ELSE IF n = 1 THEN StepInTupleOrder(s)
    ELSE LET half == StepsInTupleOrder(s, n \div 2)
         IN  IF half.pc # "search" THEN half ELSE StepsInTupleOrder(half, n - n \div 2)

SearchInTupleOrder(initial) == StepsInTupleOrder(SearchStart(initial), MaxSolveSteps)

\* ------------------------------------------------------------------------
\* Specification of State.move and State.undo called by a client: a move
\* on a parsed board or on a State an earlier move returned, then the undo
\* of that move.  The horizontal regime runs _push one loop iteration per
\* step.
\* ------------------------------------------------------------------------
MaxChain == 1

\* the second board of PuzzleTests.test_move_right: the red boat moving
\* RIGHT pushes waves 7 and 8, wave 7 pushes boat A, A pushes wave 6, wave 6
\* pushes boat B, B pushes wave 5
\*   --#-#-###
\*   --#-###-#
\*   --#-##-##
\*   --#B-####
\*   --#B#-##-
\*   --#B#A#--
\*   -##X#A-#-
\*   ###X#-#--
BoardTestPush ==
    << <<"-", "-", "#", "-", "#", "-", "#", "#", "#">>,
       <<"-", "-", "#", "-", "#", "#", "#", "-", "#">>,
       <<"-", "-", "#", "-", "#", "#", "-", "#", "#">>,
       <<"-", "-", "#", "B", "-", "#", "#", "#", "#">>,
       <<"-", "-", "#", "B", "#", "-", "#", "#", "-">>,
       <<"-", "-", "#", "B", "#", "A", "#", "-", "-">>,
       <<"-", "#", "#", "X", "#", "A", "-", "#", "-">>,
       <<"#", "#", "#", "X", "#", "-", "#", "-", "-">> >>

MoveBoards ==
    {BoardSolvedFree, BoardWavePush, BoardBoatPush, BoardLoop, BoardMiniCard,
     BoardTestPush, BoardBoatsAbreast}

\* state.move(piece, direction) is called
BeginMove ==
    /\ phase = "start"
    /\ \E i \in 1..Len(origin) :
         \E k \in 1..Len(Directions(origin[i])) :
            LET piece == origin[i]
                d == Directions(piece)[k]
            IN  /\ move_piece' = piece
                /\ move_dir' = d
                /\ IF d \in {UP, DOWN}
                   THEN /\ moved_state' = PushWithoutCollision(origin, piece, d)
                        /\ phase' = "moved"
                        /\ UNCHANGED <<work_pieces, work_queue>>
                   ELSE /\ work_pieces' = origin
                        /\ work_queue' = <<piece>>
                        /\ phase' = "pushing"
                        /\ UNCHANGED moved_state
    /\ work_moved' = <<>>
    /\ UNCHANGED <<origin, undone_state, chain>>
    /\ UNCHANGED search_vars

\* one iteration of the while-loop of _push
PushStep ==
    /\ phase \in {"pushing", "unpushing"}
    /\ work_queue # <<>>
    /\ Len(work_moved) < MaxPushIter
    /\ LET d == IF phase = "pushing" THEN move_dir ELSE OPPOSITES(move_dir)
           r == PushIter(work_pieces, work_queue, d)
       IN  /\ work_pieces' = r.pieces
           /\ work_queue' = r.queue
           /\ work_moved' = Append(work_moved, r.moved)
    /\ UNCHANGED <<origin, move_piece, move_dir, moved_state, undone_state, chain, phase>>
    /\ UNCHANGED search_vars

\* the queue of _push drained: move returns State(tuple(pieces))
EndMove ==
    /\ phase = "pushing"
    /\ work_queue = <<>>
    /\ moved_state' = work_pieces
    /\ phase' = "moved"
    /\ UNCHANGED <<origin, move_piece, move_dir, undone_state,
                   work_pieces, work_queue, work_moved, chain>>
    /\ UNCHANGED search_vars

\* moved_state.undo(moved_state.find_piece(id), direction) is called
BeginUndo ==
    /\ phase = "moved"
    /\ LET piece == FindPiece(moved_state, move_piece.id)
           d == OPPOSITES(move_dir)
       IN  IF d \in {UP, DOWN}
           THEN /\ undone_state' = PushWithoutCollision(moved_state, piece, d)
                /\ phase' = "undone"
                /\ UNCHANGED <<work_pieces, work_queue>>
           ELSE /\ work_pieces' = moved_state
                /\ work_queue' = <<piece>>
                /\ phase' = "unpushing"
                /\ UNCHANGED undone_state
    /\ work_moved' = <<>>
    /\ UNCHANGED <<origin, move_piece, move_dir, moved_state, chain>>
    /\ UNCHANGED search_vars

\* the queue of _push drained: undo returns
EndUndo ==
    /\ phase = "unpushing"
    /\ work_queue = <<>>
    /\ undone_state' = work_pieces
    /\ phase' = "undone"
    /\ UNCHANGED <<origin, move_piece, move_dir, moved_state,
                   work_pieces, work_queue, work_moved, chain>>
    /\ UNCHANGED search_vars

\* the client goes on from the State move returned
Chain ==
    /\ phase = "moved"
    /\ chain < MaxChain
    /\ origin' = moved_state
    /\ chain' = chain + 1
    /\ phase' = "start"
    /\ UNCHANGED <<move_piece, move_dir, moved_state, undone_state,
                   work_pieces, work_queue, work_moved>>
    /\ UNCHANGED search_vars

MoveInit ==
    /\ SearchIdle
    /\ origin \in {FromString(b) : b \in MoveBoards}
    /\ move_piece = Wave("", <<>>)
    /\ move_dir = ""
    /\ moved_state = NoState
    /\ undone_state = NoState
    /\ work_pieces = <<>>
    /\ work_queue = <<>>
    /\ work_moved = <<>>
    /\ chain = 0
    /\ phase = "start"

MoveNext == BeginMove \/ PushStep \/ EndMove \/ BeginUndo \/ EndUndo \/ Chain

SpecMove == MoveInit /\ [][MoveNext]_vars

\* ------------------------------------------------------------------------
\* State.move with the pushes of _push resolved in any order: an iteration
\* takes any pending piece from the work queue, and the scan of the other
\* pieces goes in any order.  The test the scan applies to a piece depends
\* on that piece alone (it is not waiting in the queue and the translated
\* piece collides with it) and the pieces of a state are distinct, so a
\* scan in another order appends the same pieces in another order.
\* ------------------------------------------------------------------------
Orderings(S) ==
    {f \in [1..Cardinality(S) -> S] : \A i, j \in 1..Cardinality(S) : f[i] = f[j] => i = j}

\* a take that throws away the pushes waiting ahead of the one taken
RemoveUpTo(q, k) == Tuple([i \in 1..(Len(q) - k) |-> q[i + k]])

\* the queue without its k-th entry
RemoveAt(q, k) ==
    Tuple([i \in 1..(Len(q) - 1) |-> IF i < k THEN q[i] ELSE q[i + 1]])

\* the pieces the scan of one iteration appends
Colliding(pieces, new_piece, waiting) ==
    {other_piece \in SeqToSet(pieces) :
        other_piece \notin SeqToSet(waiting) /\ CollidesWith(new_piece, other_piece)}

PushStepAnyOrder ==
    /\ phase = "pushing"
    /\ work_queue # <<>>
    /\ Len(work_moved) < MaxPushIter
    /\ \E k \in 1..Len(work_queue) :
          LET old_piece == work_queue[k]
              new_piece == PieceMove(old_piece, move_dir)
              pieces2 == [work_pieces EXCEPT ![IndexOf(work_pieces, old_piece)] = new_piece]
              waiting == RemoveAt(work_queue, k)
          IN  \E appended \in Orderings(Colliding(pieces2, new_piece, waiting)) :
                 /\ work_pieces' = pieces2
                 /\ work_queue' = waiting \o appended
                 /\ work_moved' = Append(work_moved, old_piece.id)
    /\ UNCHANGED <<origin, move_piece, move_dir, moved_state, undone_state, chain, phase>>
    /\ UNCHANGED search_vars

\* the client goes on from the State move returned, as the search does:
\* only when it is valid
ChainValid == IsValid(moved_state) /\ Chain

OrderNext == BeginMove \/ PushStepAnyOrder \/ EndMove \/ ChainValid

SpecOrder == MoveInit /\ [][OrderNext]_vars

\* ------------------------------------------------------------------------
\* Specification of State.from_string followed by State.is_solved: a board
\* text is parsed, is_solved is called on the State, and the client may
\* move the red boat once and call is_solved again.
\* ------------------------------------------------------------------------
\* the three boards of PuzzleTests.test_solved: the red boat written with
\* uppercase X only
\*   --#-#-###
\*   --#-###-#
\*   --#-##-##
\*   --#-#-###
\*   --#-#-###
\*   --#-#-#-#
\*   -##X#--#-
\*   ###X#-#--
BoardTestAway ==
    << <<"-", "-", "#", "-", "#", "-", "#", "#", "#">>,
       <<"-", "-", "#", "-", "#", "#", "#", "-", "#">>,
       <<"-", "-", "#", "-", "#", "#", "-", "#", "#">>,
       <<"-", "-", "#", "-", "#", "-", "#", "#", "#">>,
       <<"-", "-", "#", "-", "#", "-", "#", "#", "#">>,
       <<"-", "-", "#", "-", "#", "-", "#", "-", "#">>,
       <<"-", "#", "#", "X", "#", "-", "-", "#", "-">>,
       <<"#", "#", "#", "X", "#", "-", "#", "-", "-">> >>

\*   --#-#-###
\*   --#-###-#
\*   --#-##-##
\*   --#-#-###
\*   --#-#-###
\*   --#-#-#-#
\*   -##-#X-#-
\*   ###-#X#--
BoardTestInPort ==
    << <<"-", "-", "#", "-", "#", "-", "#", "#", "#">>,
       <<"-", "-", "#", "-", "#", "#", "#", "-", "#">>,
       <<"-", "-", "#", "-", "#", "#", "-", "#", "#">>,
       <<"-", "-", "#", "-", "#", "-", "#", "#", "#">>,
       <<"-", "-", "#", "-", "#", "-", "#", "#", "#">>,
       <<"-", "-", "#", "-", "#", "-", "#", "-", "#">>,
       <<"-", "#", "#", "-", "#", "X", "-", "#", "-">>,
       <<"#", "#", "#", "-", "#", "X", "#", "-", "-">> >>

\*   --#-#-###
\*   --#-###-#
\*   --#-##-##
\*   --#-#-###
\*   --#-#-###
\*   --#-#-#-#
\*   -##-#XX#-
\*   ###-#-#--
BoardTestAcross ==
    << <<"-", "-", "#", "-", "#", "-", "#", "#", "#">>,
       <<"-", "-", "#", "-", "#", "#", "#", "-", "#">>,
       <<"-", "-", "#", "-", "#", "#", "-", "#", "#">>,
       <<"-", "-", "#", "-", "#", "-", "#", "#", "#">>,
       <<"-", "-", "#", "-", "#", "-", "#", "#", "#">>,
       <<"-", "-", "#", "-", "#", "-", "#", "-", "#">>,
       <<"-", "#", "#", "-", "#", "X", "X", "#", "-">>,
       <<"#", "#", "#", "-", "#", "-", "#", "-", "-">> >>

TestBoards == {BoardTestAway, BoardTestInPort, BoardTestAcross}

\* Texts without waves in which the red boat is written on one, two or
\* three adjacent cells around the port, with none or one of its cells in
\* lowercase.  cells is in row-major order; front is the index of the
\* lowercase cell, or 0.
GoalRows == 5..7
GoalColumns == 4..6

GoalPlacements ==
    LET region == GoalRows \X GoalColumns
        along(p, n, delta) == [j \in 1..n |-> <<p[1] + (j - 1) * delta[1], p[2] + (j - 1) * delta[2]>>]
    IN  {cells \in {along(p, n, delta) : p \in region, n \in 1..3, delta \in {<<1, 0>>, <<0, 1>>}} :
            SeqToSet(cells) \subseteq region}

GoalText(cells, front) ==
    [row \in 1..HEIGHT |->
        [column \in 1..WIDTH |->
            IF \E j \in 1..Len(cells) : cells[j] = <<row - 1, column - 1>>
            THEN IF front > 0 /\ cells[front] = <<row - 1, column - 1>> THEN "x" ELSE "X"
            ELSE GAP]]

GoalTexts ==
    TestBoards \cup
        UNION {{GoalText(cells, front) : front \in 0..Len(cells)} : cells \in GoalPlacements}

UppercaseOnly(lines) ==
    \A p \in CellsOf(lines) : ~IsLower(CharAt(lines, p))

\* the cells on which the text shows the red boat
RedCells(lines) ==
    {p \in CellsOf(lines) : ToUpper(CharAt(lines, p)) = RED_BOAT_ID}

MaxSail == 1

GoalInit ==
    /\ SearchIdle
    /\ origin \in {FromString(lines) : lines \in GoalTexts}
    /\ move_piece = Wave("", <<>>)
    /\ move_dir = ""
    /\ moved_state = NoState
    /\ undone_state = NoState
    /\ work_pieces = <<>>
    /\ work_queue = <<>>
    /\ work_moved = <<>>
    /\ chain = 0
    /\ phase = "parsed"

\* state.is_solved() is called
TestSolved ==
    /\ phase = "parsed"
    /\ result' = IF IsSolved(origin) THEN "solved" ELSE "not_solved"
    /\ phase' = "tested"
    /\ UNCHANGED <<initial_state, current_state, queue, state_map, last_depth_size,
                   depth, final_state, moves, last_step, gen_state, gen_path, pc,
                   solve_calls, first_outcome>>
    /\ UNCHANGED <<origin, move_piece, move_dir, moved_state, undone_state,
                   work_pieces, work_queue, work_moved, chain>>

\* the client moves the red boat and goes on from the State move returned
Sail ==
    /\ phase = "tested"
    /\ chain < MaxSail
    /\ \E k \in 1..Len(Cardinal) :
          /\ move_piece' = FindPiece(origin, RED_BOAT_ID)
          /\ move_dir' = Cardinal[k]
          /\ origin' = Move(origin, FindPiece(origin, RED_BOAT_ID), Cardinal[k])
    /\ chain' = chain + 1
    /\ phase' = "parsed"
    /\ result' = "none"
    /\ UNCHANGED <<initial_state, current_state, queue, state_map, last_depth_size,
                   depth, final_state, moves, last_step, gen_state, gen_path, pc,
                   solve_calls, first_outcome>>
    /\ UNCHANGED <<moved_state, undone_state, work_pieces, work_queue, work_moved>>

GoalNext == TestSolved \/ Sail

SpecGoal == GoalInit /\ [][GoalNext]_vars

\* ------------------------------------------------------------------------
\* Replaying and printing a Solution
\* ------------------------------------------------------------------------
\* the unit moves a list of steps stands for, in order
RECURSIVE UnitMoves(_, _)
UnitMoves(step_list, i) ==
    IF i > Len(step_list) THEN <<>>
    ELSE [k \in 1..step_list[i].distance |-> NewMove(step_list[i].piece_id, step_list[i].direction, 1)]
            \o UnitMoves(step_list, i + 1)

\* the states a client passes through when it applies the unit moves in order
RECURSIVE Replay(_, _, _)
Replay(state, unit_moves, i) ==
    IF i > Len(unit_moves) THEN <<>>
    ELSE LET next == Move(state, FindPiece(state, unit_moves[i].piece_id), unit_moves[i].direction)
         IN  <<next>> \o Replay(next, unit_moves, i + 1)

\* Move.__str__ and Solution.__str__
MoveStr(m) == m.piece_id \o m.direction \o ToString(m.distance)

RECURSIVE Notation(_, _)
Notation(step_list, i) ==
    IF i > Len(step_list) THEN ""
    ELSE IF i = Len(step_list) THEN MoveStr(step_list[i])
    ELSE MoveStr(step_list[i]) \o ", " \o Notation(step_list, i + 1)

Returned == pc = "done" /\ result = "solution"

\* ------------------------------------------------------------------------
\* Claims
\* ------------------------------------------------------------------------

\* C1: whenever find_solved_state returns a state, that state is solved and
\* no solved state (the initial state included) is reachable from the
\* initial state by fewer valid unit moves than the returned state.
C1_ReturnsNearestSolvedState ==
    (pc = "generate" /\ gen_path = <<>>) =>
        /\ IsSolved(final_state)
        /\ LET levels == Levels(initial_state, MaxDist)
           IN  \A k \in 1..Len(levels) :
                   (\E t \in levels[k] : IsSolved(t)) => final_state \in levels[k]

\* C2: replaying the steps of a returned Solution from the initial state,
\* one unit move at a time, yields a valid state after every unit move and
\* ends in a solved state.
C2_SolutionReplays ==
    Returned =>
        LET states == Replay(initial_state, UnitMoves(Solution, 1), 1)
        IN  /\ \A i \in 1..Len(states) : IsValid(states[i])
            /\ IsSolved(IF states = <<>> THEN initial_state ELSE states[Len(states)])

\* C3: the move count of the returned Solution equals the breadth-first
\* depth of the solved state the search returned.
C3_MoveCountIsDepth ==
    Returned => MoveCount(Solution) = depth

\* C4: when the initial state is already solved, solve returns a Solution
\* with 0 steps and 0 moves.
C4_SolvedInitialGivesEmptySolution ==
    (pc = "done" /\ IsSolved(initial_state)) =>
        /\ result = "solution"
        /\ StepCount(Solution) = 0
        /\ MoveCount(Solution) = 0

\* C5: when the red boat starts with front (6,5) and tail (5,5) and moving
\* it down is a valid move, solve returns the single step "XD1" with move
\* count 1 and step count 1.
OneStepFromPort(state) ==
    /\ FindPiece(state, RED_BOAT_ID).positions = << <<6, 5>>, <<5, 5>> >>
    /\ IsValid(state)
    /\ IsValid(Move(state, FindPiece(state, RED_BOAT_ID), DOWN))

C5_SingleStepSolution ==
    (pc = "done" /\ OneStepFromPort(initial_state)) =>
        /\ result = "solution"
        /\ Notation(Solution, 1) = "XD1"
        /\ MoveCount(Solution) = 1
        /\ StepCount(Solution) = 1

\* C6 (as stated): on the card 3 board (red boat front in row 7, column 3)
\* solve returns exactly "4L2, 5L2, XU3, XR2, 6L2, 7L1, 8R2, XD5", with
\* move count 19 and step count 8.
OnCard3 == initial_state = FromString(BoardCard3)

Parents(initial, map, t) ==
    LET m == map[Key(t)]
    IN  IF m = None THEN {}
        ELSE {s \in {StateOf(initial, key) : key \in DOMAIN map} :
                Move(s, FindPiece(s, m.piece_id), m.direction) = t}

\* the unit moves of the chains of n recorded moves from the initial state
\* to t; the path on which the search discovered t is one of them when n is
\* the depth of t
RECURSIVE DiscoveryPaths(_, _, _, _)
DiscoveryPaths(initial, map, t, n) ==
    IF n = 0 THEN IF t = initial THEN {<<>>} ELSE {}
    ELSE UNION {{Append(path, NewMove(map[Key(t)].piece_id, map[Key(t)].direction, 1)) :
                    path \in DiscoveryPaths(initial, map, s, n - 1)} :
                s \in Parents(initial, map, t)}

\* one step per maximal run of unit moves
RECURSIVE Compact(_, _)
Compact(unit_moves, i) ==
    IF i > Len(unit_moves) THEN <<>>
    ELSE LET rest == Compact(unit_moves, i + 1)
         IN  IF rest # <<>> /\ CanMergeWith(rest[1], unit_moves[i])
             THEN <<[rest[1] EXCEPT !.distance = @ + unit_moves[i].distance]>> \o Tail(rest)
             ELSE <<unit_moves[i]>> \o rest

C11_CompactionExact ==
    Returned =>
        \E path \in DiscoveryPaths(initial_state, state_map, final_state, depth) :
            Solution = Compact(path, 1)

\* C12: two states recorded by one search are equal (as tuples of pieces,
\* the keys of state_map) if and only if their renderings are the same
\* text: no two distinct recorded states share a rendering.
Recorded == {StateOf(initial_state, key) : key \in DOMAIN state_map}

C12_RenderingIsInjective ==
    pc # "search" =>
        Cardinality({Render(state) : state \in Recorded}) = Cardinality(Recorded)

C12_ManyRecorded == pc # "search" /\ Cardinality(Recorded) > 20

\* C13: in every state State.move returns on a valid state, by a vertical
\* move or by a horizontal push, every boat lies in one row or one column
\* with its cells adjacent in order, and has the length and the offsets
\* between its cells that it had before the move.
Abs(n) == IF n < 0 THEN -n ELSE n

Colinear(positions) ==
    \/ \A j \in 1..Len(positions) : positions[j][1] = positions[1][1]
    \/ \A j \in 1..Len(positions) : positions[j][2] = positions[1][2]

Contiguous(positions) ==
    \A j \in 1..(Len(positions) - 1) :
        Abs(positions[j][1] - positions[j + 1][1])
            + Abs(positions[j][2] - positions[j + 1][2]) = 1

SameOffsets(a, b) ==
    /\ Len(a) = Len(b)
    /\ \A j \in 1..Len(a) :
          /\ a[j][1] - a[1][1] = b[j][1] - b[1][1]
          /\ a[j][2] - a[1][2] = b[j][2] - b[1][2]

C13_BoatsNeverBreak ==
    (phase = "moved" /\ IsValid(origin)) =>
        /\ Len(moved_state) = Len(origin)
        /\ \A i \in 1..Len(origin) :
              origin[i].kind = "Boat" =>
                 /\ moved_state[i].id = origin[i].id
                 /\ moved_state[i].kind = "Boat"
                 /\ Colinear(moved_state[i].positions)
                 /\ Contiguous(moved_state[i].positions)
                 /\ SameOffsets(moved_state[i].positions, origin[i].positions)

\* a wave has pushed a boat of three cells and the move has returned
C13_WavePushedLongBoat ==
    /\ phase = "moved" /\ IsValid(origin)
    /\ move_piece.kind = "Wave"
    /\ \E i \in 1..Len(origin) :
          /\ origin[i].kind = "Boat"
          /\ Len(origin[i].positions) = 3
          /\ moved_state[i] # origin[i]

\* C14: every state in the visited map or on the frontier, and every state
\* the search expands, has all its cells inside the board and no cell
\* occupied twice.
InsideBoard(state) ==
    \A i \in 1..Len(state) : \A j \in 1..Len(state[i].positions) :
        /\ state[i].positions[j][1] \in 0..(HEIGHT - 1)
        /\ state[i].positions[j][2] \in 0..(WIDTH - 1)

NoTwoCellsCoincide(state) ==
    \A i, k \in 1..Len(state) :
        \A j \in 1..Len(state[i].positions) : \A l \in 1..Len(state[k].positions) :
            state[i].positions[j] = state[k].positions[l] => (i = k /\ j = l)

C14_RecordedStatesValid ==
    /\ \A key \in DOMAIN state_map \cup SeqToSet(queue) :
          /\ InsideBoard(StateOf(initial_state, key))
          /\ NoTwoCellsCoincide(StateOf(initial_state, key))
    /\ current_state # NoState =>
          InsideBoard(current_state) /\ NoTwoCellsCoincide(current_state)

\* the search is under way and the state just expanded had a successor that
\* is not valid: that successor is not in the map
C14_InvalidSuccessorDiscarded ==
    /\ pc = "search"
    /\ Cardinality(DOMAIN state_map) > 20
    /\ \E pd \in SeqToSet(PairsFrom(current_state, 1)) :
          LET new_state == Move(current_state, pd[1], pd[2])
          IN  ~IsValid(new_state) /\ Key(new_state) \notin DOMAIN state_map

\* C15: State.move on a valid state, for a piece and one of its directions,
\* is never refused: its push loop translates no piece twice, so it returns;
\* and when the state it returns has a cell in column -1, column WIDTH,
\* row -1 or row HEIGHT, that state is not valid.
OverEdge(state) ==
    \E i \in 1..Len(state) : \E j \in 1..Len(state[i].positions) :
        \/ state[i].positions[j][1] \in {-1, HEIGHT}
        \/ state[i].positions[j][2] \in {-1, WIDTH}

C17_UppercaseBoards ==
    phase = "tested" =>
        \A lines \in GoalTexts :
            (UppercaseOnly(lines) /\ origin = FromString(lines)) =>
                /\ RedCells(lines) = {<<6, 5>>, <<7, 5>>} => result = "solved"
                /\ RedCells(lines) \in {{<<6, 3>>, <<7, 3>>}, {<<6, 5>>, <<6, 6>>}}
                      => result = "not_solved"

C19_WalkFollowsDiscovery ==
    /\ pc # "hang"
    /\ result \notin {"key_error", "attribute_error"}
    /\ pc = "generate" =>
          /\ Key(gen_state) \in DOMAIN state_map
          /\ Len(gen_path) <= depth
          /\ gen_path # <<>> =>
                LET after == gen_path[Len(gen_path)]
                IN  /\ Key(after) \in DOMAIN state_map
                    /\ gen_state \in Parents(initial_state, state_map, after)
    /\ Returned => Len(gen_path) = depth

\* C20: a horizontal State.move on a valid state translates, by the one
\* unit delta, the requested piece and every piece of the other kind onto
\* whose cells a translated piece comes, through the whole chain, and
\* leaves the other pieces where they were.
\*
\* the indices of the interlocked group: the least set that holds the
\* group given and every piece of the other kind on a cell that a piece
\* of the set takes when translated
RECURSIVE PushedGroup(_, _, _)
PushedGroup(state, d, group) ==
    LET more == group \cup
                {k \in 1..Len(state) :
                    \E i \in group :
                        /\ state[i].kind # state[k].kind
                        /\ SeqToSet(Transform(d, state[i].positions))
                              \cap SeqToSet(state[k].positions) # {}}
    IN  IF more = group THEN group ELSE PushedGroup(state, d, more)

C20_PushMovesTheWholeChain ==
    (phase = "moved" /\ IsValid(origin) /\ move_dir \in {LEFT, RIGHT}) =>
        LET group == PushedGroup(origin, move_dir, {IndexOf(origin, move_piece)})
        IN  /\ Len(moved_state) = Len(origin)
            /\ \A k \in 1..Len(origin) :
                  /\ moved_state[k].id = origin[k].id
                  /\ moved_state[k].positions =
                        IF k \in group
                        THEN Transform(move_dir, origin[k].positions)
                        ELSE origin[k].positions

\* the red boat moved RIGHT on the board of test_move_right and took three
\* waves and both other boats with it, to a valid state
C20_LongChain ==
    /\ phase = "moved"
    /\ origin = FromString(BoardTestPush)
    /\ move_piece.id = RED_BOAT_ID /\ move_dir = RIGHT
    /\ work_moved = <<"X", "7", "8", "A", "6", "B", "5">>
    /\ IsValid(moved_state)

\* C21: push-order independence.  For a valid state, a piece and LEFT or
\* RIGHT, whatever pending push each iteration takes from the work queue and
\* whatever the order of the scan for collisions, every piece of the
\* successor has the cell set it has in the state State.move returns.
C21_PushOrderIndependent ==
    (phase = "moved" /\ IsValid(origin) /\ move_dir \in {LEFT, RIGHT}) =>
        LET successor == Move(origin, move_piece, move_dir)
        IN  /\ Len(moved_state) = Len(successor)
            /\ \A i \in 1..Len(successor) :
                  /\ moved_state[i].id = successor[i].id
                  /\ SeqToSet(moved_state[i].positions) = SeqToSet(successor[i].positions)

\* a push of four pieces or more was resolved in an order that is not the
\* order of _push
C21_OtherOrderTaken ==
    /\ phase = "moved" /\ IsValid(origin) /\ move_dir \in {LEFT, RIGHT}
    /\ Len(work_moved) >= 4
    /\ work_moved[2] = "8"
    /\ origin = FromString(BoardTestPush)

\* C22: a vertical move changes only the requested piece.  For UP or DOWN
\* and a boat of the state, the state move returns has the boat's cells each
\* one row up or down, in the same columns, and every other piece, the
\* pieces the boat now overlaps included, as it was; nothing is pushed.
C22_VerticalMoveChangesOnePiece ==
    (phase = "moved" /\ move_dir \in {UP, DOWN}) =>
        LET step == IF move_dir = UP THEN -1 ELSE 1
        IN  /\ move_piece.kind = "Boat"
            /\ work_moved = <<>>
            /\ Len(moved_state) = Len(origin)
            /\ \A i \in 1..Len(origin) :
                  IF origin[i] = move_piece
                  THEN /\ moved_state[i].id = origin[i].id
                       /\ moved_state[i].kind = origin[i].kind
                       /\ Len(moved_state[i].positions) = Len(origin[i].positions)
                       /\ \A j \in 1..Len(origin[i].positions) :
                              moved_state[i].positions[j] =
                                  <<origin[i].positions[j][1] + step, origin[i].positions[j][2]>>
                  ELSE moved_state[i] = origin[i]

\* on a board with two boats, a boat moved vertically from a valid state
\* onto a cell of a wave, and the wave stayed
C22_MovedOntoWave ==
    /\ phase = "moved" /\ move_dir \in {UP, DOWN}
    /\ IsValid(origin)
    /\ Cardinality({i \in 1..Len(origin) : origin[i].kind = "Boat"}) >= 2
    /\ \E i \in 1..Len(moved_state) :
          /\ moved_state[i].kind = "Wave"
          /\ moved_state[i] = origin[i]
          /\ SeqToSet(moved_state[i].positions)
                \cap SeqToSet(FindPiece(moved_state, move_piece.id).positions) # {}

\* C23: in the state a horizontal State.move returns on a valid state, the
\* requested piece is translated by exactly one column in the direction of
\* the move, every other piece is as it was or translated by exactly one
\* column in that direction, and no cell of any piece has changed its row.
ShiftedOneColumn(before, after, d) ==
    /\ Len(after) = Len(before)
    /\ \A j \in 1..Len(before) :
          /\ after[j][1] = before[j][1]
          /\ after[j][2] = before[j][2] + (IF d = LEFT THEN -1 ELSE 1)

C23_HorizontalMoveShiftsByOneColumn ==
    (phase = "moved" /\ IsValid(origin) /\ move_dir \in {LEFT, RIGHT}) =>
        /\ Len(moved_state) = Len(origin)
        /\ \A i \in 1..Len(origin) :
              /\ moved_state[i].id = origin[i].id
              /\ moved_state[i].kind = origin[i].kind
              /\ IF origin[i] = move_piece
                 THEN ShiftedOneColumn(origin[i].positions, moved_state[i].positions, move_dir)
                 ELSE \/ moved_state[i] = origin[i]
                      \/ ShiftedOneColumn(origin[i].positions, moved_state[i].positions,
                                          move_dir)

\* a horizontal move LEFT from a valid state pushed two pieces or more and
\* left a piece of the board where it was
C23_SomePushedSomeLeft ==
    /\ phase = "moved" /\ IsValid(origin) /\ move_dir = LEFT
    /\ Len(work_moved) >= 3
    /\ \E i \in 1..Len(origin) :
          origin[i].positions # <<>> /\ moved_state[i] = origin[i]
    /\ \E i \in 1..Len(origin) :
          /\ origin[i] # move_piece
          /\ origin[i].positions # <<>>
          /\ ShiftedOneColumn(origin[i].positions, moved_state[i].positions, LEFT)

\* C24: after a horizontal State.move from a valid state no cell of a boat
\* is a cell of a wave: every overlap of a boat and a wave the move made has
\* been resolved by a push.  So the state returned can be invalid only
\* because a cell has left the board or because two boats overlap.
BoatOnWave(state) ==
    \E i, k \in 1..Len(state) :
        /\ state[i].kind = "Boat" /\ state[k].kind = "Wave"
        /\ SeqToSet(state[i].positions) \cap SeqToSet(state[k].positions) # {}

BoatOnBoat(state) ==
    \E i, k \in 1..Len(state) :
        /\ i # k
        /\ state[i].kind = "Boat" /\ state[k].kind = "Boat"
        /\ SeqToSet(state[i].positions) \cap SeqToSet(state[k].positions) # {}

C24_NoBoatOnWaveAfterPush ==
    (phase = "moved" /\ IsValid(origin) /\ move_dir \in {LEFT, RIGHT}) =>
        /\ ~BoatOnWave(moved_state)
        /\ ~IsValid(moved_state) => (~InsideBoard(moved_state) \/ BoatOnBoat(moved_state))

\* a horizontal move from a valid state put a boat on a wave, a push took
\* the wave away, and the state returned is invalid by two boats alone
C24_InvalidByBoatsAlone ==
    /\ phase = "moved" /\ IsValid(origin) /\ move_dir \in {LEFT, RIGHT}
    /\ Len(work_moved) >= 2
    /\ BoatOnBoat(moved_state)
    /\ InsideBoard(moved_state)
    /\ ~IsValid(moved_state)

\* C25: pieces of the same kind never push each other.  When the search
\* moves a piece LEFT or RIGHT, every boat pushed along was pushed by a wave
\* that came onto one of its cells; and when a boat that the move
\* translates (the piece itself or a pushed boat) lands on a cell of another
\* boat, the other boat is left where it is, the successor holds the
\* overlap and is not valid, and the search records it neither in its map
\* nor on its frontier.
LandsOn(state, new_state, i, k) ==
    /\ i # k
    /\ state[i].kind = "Boat" /\ state[k].kind = "Boat"
    /\ new_state[i] # state[i]
    /\ SeqToSet(new_state[i].positions) \cap SeqToSet(new_state[k].positions) # {}

PushedByWave(state, new_state, d, k) ==
    \E w \in 1..Len(state) :
        /\ state[w].kind = "Wave"
        /\ new_state[w] # state[w]
        /\ SeqToSet(Transform(d, state[w].positions)) \cap SeqToSet(state[k].positions) # {}

C25_BoatLandingOnBoatIsDiscarded ==
    (pc = "search" /\ current_state # NoState) =>
        \A pd \in SeqToSet(PairsFrom(current_state, 1)) :
            pd[2] \in {LEFT, RIGHT} =>
                LET new_state == Move(current_state, pd[1], pd[2])
                IN  /\ \A k \in 1..Len(current_state) :
                          (/\ current_state[k].kind = "Boat"
                           /\ current_state[k] # pd[1]
                           /\ new_state[k] # current_state[k])
                              => PushedByWave(current_state, new_state, pd[2], k)
                    /\ \A i, k \in 1..Len(current_state) :
                          LandsOn(current_state, new_state, i, k) =>
                              /\ new_state[k] = current_state[k]
                              /\ HasCollision(new_state)
                              /\ ~IsValid(new_state)
                              /\ Key(new_state) \notin DOMAIN state_map
                              /\ Key(new_state) \notin SeqToSet(queue)

\* the search has expanded a state in which a wave pushes a boat onto
\* another boat, and has recorded other successors of that state
C25_PushedBoatLandedOnBoat ==
    /\ pc = "search" /\ current_state # NoState
    /\ Cardinality(DOMAIN state_map) > 1
    /\ \E pd \in SeqToSet(PairsFrom(current_state, 1)) :
          /\ pd[1].kind = "Wave"
          /\ \E i, k \in 1..Len(current_state) :
                LandsOn(current_state, Move(current_state, pd[1], pd[2]), i, k)

\* C26: the most-recently-moved-first order does not affect correctness.
\* When the search has returned a solved state or has reported that there
\* is no solution, the search that takes the pieces in their tuple order,
\* run on the same initial state, ends the same way, and when both return a
\* solved state they found it at the same depth.
C26_ReorderingKeepsOutcomeAndDepth ==
    pc \in {"generate", "done", "hang"} =>
        \A other \in {SearchInTupleOrder(initial_state)} :
            /\ other.pc # "search"
            /\ (result = "no_solution") <=> (other.result = "no_solution")
            /\ (final_state # NoState) <=> (other.final_state # NoState)
            /\ final_state # NoState =>
                  /\ other.depth = depth
                  /\ IsSolved(other.final_state)

\* the two searches returned at depth 3 or more with different visited maps
C26_OrdersDiffer ==
    /\ pc \in {"generate", "done", "hang"}
    /\ depth >= 3
    /\ SearchInTupleOrder(initial_state).state_map # state_map

\* C27: get_ordered_pieces returns a permutation of the pieces of the state.
\* For the initial state it is the tuple of pieces as it is; for any other
\* recorded state the piece whose id the visited map records for the state
\* comes first, the other pieces follow in their relative order, and every
\* piece appears exactly once.
PlaceIn(ordered, piece) == {n \in 1..Len(ordered) : ordered[n] = piece}

C27_OrderedPiecesIsPermutation ==
    \A key \in DOMAIN state_map :
        LET state == StateOf(initial_state, key)
            ordered == GetOrderedPieces(state, state_map)
        IN  /\ Len(ordered) = Len(state)
            /\ \A i \in 1..Len(state) : Cardinality(PlaceIn(ordered, state[i])) = 1
            /\ IF state = initial_state
               THEN ordered = state
               ELSE /\ ordered[1].id = state_map[key].piece_id
                    /\ \A a, b \in 1..Len(state) :
                          (a < b /\ state[a] # ordered[1] /\ state[b] # ordered[1]) =>
                              \A m \in PlaceIn(ordered, state[a]) :
                                  \A n \in PlaceIn(ordered, state[b]) : m < n

\* the map records a state discovered by a move of the last piece of the
\* tuple, so that the order returned is not the tuple order
C27_LastPieceComesFirst ==
    /\ pc = "search"
    /\ Cardinality(DOMAIN state_map) > 5
    /\ \E key \in DOMAIN state_map :
          LET state == StateOf(initial_state, key)
          IN  /\ state # initial_state
              /\ state_map[key].piece_id = state[Len(state)].id
              /\ GetOrderedPieces(state, state_map) # state

\* C28: the frontier is FIFO by depth.  While the search runs, the states
\* of the queue stand in non-decreasing order of their depth (the least
\* number of valid unit moves from the initial state, which is the depth at
\* which the search discovered them): the first last_depth_size of them
\* are of the depth being expanded and the others one deeper, so that the
\* depths in the queue differ by at most one; and the state taken from the
\* queue last is no deeper than any state still in it, so that states are
\* dequeued in non-decreasing order of depth.
\*
\* rings[n + 1] = the states at exactly n valid unit moves from the first
RECURSIVE RingsFrom(_, _, _)
RingsFrom(rings, seen, n) ==
    IF n = 0 THEN rings
    ELSE LET next == UNION {ValidSuccessors(t) : t \in rings[Len(rings)]} \ seen
         IN  RingsFrom(Append(rings, next), seen \cup next, n - 1)

Rings(state, n) == RingsFrom(<<{state}>>, {state}, n)

\* the depth of a state, -1 when it lies in none of the rings
DepthIn(rings, state) ==
    IF \E n \in 1..Len(rings) : state \in rings[n]
    THEN (CHOOSE n \in 1..Len(rings) : state \in rings[n]) - 1
    ELSE -1

C28_FrontierIsFifoByDepth ==
    pc = "search" =>
        \A rings \in {Rings(initial_state, depth)} :
            \A depths \in {Tuple([i \in 1..Len(queue) |->
                                DepthIn(rings, StateOf(initial_state, queue[i]))])} :
                /\ \A key \in DOMAIN state_map :
                      DepthIn(rings, StateOf(initial_state, key)) \in 0..depth
                /\ \A i \in 1..Len(queue) :
                      depths[i] = IF i <= last_depth_size THEN depth - 1 ELSE depth
                /\ \A i, j \in 1..Len(queue) :
                      /\ i < j => depths[i] <= depths[j]
                      /\ depths[j] - depths[i] \in {-1, 0, 1}
                /\ \A i \in 1..Len(queue) :
                      DepthIn(rings, current_state) \in 0..depths[i]

\* the queue holds states of two depths, two or more of each, at depth 3
\* or deeper
C28_TwoDepthsInQueue ==
    /\ pc = "search"
    /\ depth >= 3
    /\ last_depth_size >= 2
    /\ Len(queue) >= last_depth_size + 2

\* C29: during a search Piece.move is only called with a direction the
\* piece allows.  For every state the search takes from its queue, every
\* piece of it and every direction of that piece, each call of Piece.move
\* that State.move makes is for a boat with UP, DOWN, LEFT or RIGHT or for a
\* wave with LEFT or RIGHT: none raises ValueError, and no wave is asked to
\* move UP or DOWN.
SearchCalls(state, map) ==
    UNION {SeqToSet(MoveCalls(state, pd[1], pd[2])) :
              pd \in SeqToSet(PairsFrom(GetOrderedPieces(state, map), 1))}

C29_NoValueErrorDuringSearch ==
    (pc \in {"search", "generate"} /\ current_state # NoState) =>
        \A call \in SearchCalls(current_state, state_map) :
            /\ ~RaisesValueError(call[1], call[2])
            /\ call[1].kind = "Boat" => call[2] \in {UP, DOWN, LEFT, RIGHT}
            /\ call[1].kind = "Wave" => call[2] \in {LEFT, RIGHT}

\* the search has expanded a state in which a boat moving sideways pushes a
\* wave and the wave pushes another boat
C29_BoatPushedWavePushedBoat ==
    /\ pc = "search" /\ current_state # NoState
    /\ Cardinality(DOMAIN state_map) > 5
    /\ \E pd \in SeqToSet(PairsFrom(current_state, 1)) :
          LET calls == MoveCalls(current_state, pd[1], pd[2])
          IN  /\ pd[1].kind = "Boat"
              /\ Len(calls) >= 3
              /\ \E m, n \in 2..Len(calls) :
                    calls[m][1].kind = "Wave" /\ calls[n][1].kind = "Boat"

\* C30: rendering marks the front of every boat.  In the rendering of a
\* valid state every cell of a boat shows the boat's uppercase id letter,
\* except the boat's front (first) cell, which shows the lowercase id
\* letter, for every boat; the cells of waves show '#' and every other cell
\* shows '-'.
ToLower(character) ==
    CASE character = "X" -> "x"
      [] character = "A" -> "a"
      [] character = "B" -> "b"
      [] OTHER -> character

C30_RenderingMarksEveryFront ==
    (phase \in {"start", "moved"} /\ IsValid(origin)) =>
        LET rendering == Render(origin)
        IN  /\ \A i \in 1..Len(origin) : \A j \in 1..Len(origin[i].positions) :
                  rendering[origin[i].positions[j]] =
                      IF origin[i].kind = "Wave" THEN BLOCK
                      ELSE IF j = 1 THEN ToLower(origin[i].id)
                      ELSE origin[i].id
            /\ \A rc \in (0..(HEIGHT - 1)) \X (0..(WIDTH - 1)) :
                  rc \notin SeqToSet(AllPositions(origin)) => rendering[rc] = GAP

\* C31: in every state State.move reaches from a parsed board, there is
\* exactly one wave for every row of the board, the wave with id n has all
\* its cells in row n - 1, and a move leaves the number of cells of every
\* wave and their spacing within the row as they were.
WavesInTheirRows(state) ==
    /\ Cardinality({i \in 1..Len(state) : state[i].kind = "Wave"}) = HEIGHT
    /\ \A row \in 0..(HEIGHT - 1) :
          Cardinality({i \in 1..Len(state) :
              state[i].kind = "Wave" /\ state[i].id = ToString(row + 1)}) = 1
    /\ \A i \in 1..Len(state) :
          state[i].kind = "Wave" =>
              \A j \in 1..Len(state[i].positions) :
                  ToString(state[i].positions[j][1] + 1) = state[i].id

C31_WavesKeepRowAndShape ==
    /\ phase \in {"start", "pushing", "moved"} => WavesInTheirRows(origin)
    /\ phase = "moved" =>
          /\ WavesInTheirRows(moved_state)
          /\ \A i \in 1..Len(origin) :
                origin[i].kind = "Wave" =>
                    /\ moved_state[i].id = origin[i].id
                    /\ moved_state[i].kind = "Wave"
                    /\ SameOffsets(moved_state[i].positions, origin[i].positions)

\* a second move in a row has pushed a wave of three cells or more that the
\* first move had already translated
C31_WaveMovedTwice ==
    /\ phase = "moved" /\ chain = 1
    /\ \E i \in 1..Len(origin) :
          /\ origin[i].kind = "Wave"
          /\ Len(origin[i].positions) >= 3
          /\ move_piece.id # origin[i].id
          /\ moved_state[i] # origin[i]
          /\ \A b \in MoveBoards : FromString(b)[i] # origin[i]

\* C32: Piece.move(d), for a cardinal direction the piece allows, returns a
\* piece with the same id and kind whose i-th cell is the i-th cell of the
\* original shifted by the unit delta of d (UP (-1,0), DOWN (+1,0),
\* LEFT (0,-1), RIGHT (0,+1)).  Every call State.move makes, for the
\* requested piece and for every pushed piece, replaces the piece by such a
\* piece and leaves the other pieces alone, so the order of the cells is
\* kept and the front of a boat stays its first cell.
UnitDelta(d) ==
    CASE d = UP -> <<-1, 0>>
      [] d = DOWN -> <<1, 0>>
      [] d = LEFT -> <<0, -1>>
      [] d = RIGHT -> <<0, 1>>

ShiftedCellByCell(before, after, d) ==
    /\ after.id = before.id
    /\ after.kind = before.kind
    /\ Len(after.positions) = Len(before.positions)
    /\ \A j \in 1..Len(before.positions) :
          /\ after.positions[j][1] = before.positions[j][1] + UnitDelta(d)[1]
          /\ after.positions[j][2] = before.positions[j][2] + UnitDelta(d)[2]

C32_PieceMoveShiftsCellByCell ==
    [][/\ (phase = "start" /\ phase' = "moved") =>
             \A i \in 1..Len(origin) :
                 IF origin[i] = move_piece'
                 THEN ShiftedCellByCell(origin[i], moved_state'[i], move_dir')
                 ELSE moved_state'[i] = origin[i]
       /\ (phase = "pushing" /\ work_moved' # work_moved) =>
             \A i \in 1..Len(work_pieces) :
                 IF work_pieces[i] = Head(work_queue)
                 THEN ShiftedCellByCell(work_pieces[i], work_pieces'[i], move_dir)
                 ELSE work_pieces'[i] = work_pieces[i]]_vars

\* a boat of three cells has been pushed by the second of two moves, after
\* the first move had translated it
C32_LongBoatPushedTwice ==
    /\ phase = "moved" /\ chain = 1
    /\ \E i \in 1..Len(origin) :
          /\ origin[i].kind = "Boat"
          /\ Len(origin[i].positions) >= 3
          /\ move_piece.id # origin[i].id
          /\ moved_state[i] # origin[i]
          /\ \A b \in MoveBoards : origin[i] \notin SeqToSet(FromString(b))

\* C33: a second call of Puzzle.solve on the same Puzzle object ends as the
\* first did: when the first call returned a Solution, the second returns a
\* Solution with the same steps (and so the same move count).
C33_SecondSolveReturnsTheSame ==
    (solve_calls = 2 /\ pc \in {"done", "hang"} /\ first_outcome.result = "solution") =>
        /\ Returned
        /\ Solution = first_outcome.steps
        /\ MoveCount(Solution) = MoveCount(first_outcome.steps)

\* C34: the bookkeeping of the visited map and the frontier.  At every
\* point of the search every state of the frontier is a key of the visited
\* map, the frontier holds no state twice, and the initial state maps to
\* None; and in every step every key of the map stays with the move
\* recorded for it, and every state added to the frontier is a state that
\* was not a key of the map before and is one now, so that no state is
\* enqueued twice and no recorded move is overwritten.
Enqueued(before, after) ==
    {after[n] : n \in Len(before)..Len(after)}

C34_MapAndFrontierBookkeeping ==
    /\ [](/\ \A n \in 1..Len(queue) : queue[n] \in DOMAIN state_map
          /\ \A m, n \in 1..Len(queue) : queue[m] = queue[n] => m = n
          /\ state_map[Key(initial_state)] = None)
    /\ [][/\ \A key \in DOMAIN state_map :
               key \in DOMAIN state_map' /\ state_map'[key] = state_map[key]
          /\ queue' # queue =>
               /\ SubSeq(queue', 1, Len(queue) - 1) = Tail(queue)
               /\ \A key \in Enqueued(queue, queue') :
                     key \notin DOMAIN state_map /\ key \in DOMAIN state_map'
               /\ DOMAIN state_map' = DOMAIN state_map \cup Enqueued(queue, queue')]_vars

\* C35: every returned Solution is fully compacted and well formed: every
\* step has a distance of at least 1, no two adjacent steps have the same
\* piece id and the same direction, and step_count() is at most
\* move_count().
C35_ReturnedSolutionIsCompacted ==
    Returned =>
        /\ \A n \in 1..Len(Solution) : Solution[n].distance >= 1
        /\ \A n \in 1..(Len(Solution) - 1) :
              \/ Solution[n].piece_id # Solution[n + 1].piece_id
              \/ Solution[n].direction # Solution[n + 1].direction
        /\ StepCount(Solution) <= MoveCount(Solution)

\* a Solution of several steps was returned in which unit moves were merged
\* into a step before the last and a piece turns from one step to the next
C35_MergedStepsReturned ==
    /\ Returned
    /\ Len(Solution) >= 3
    /\ StepCount(Solution) < MoveCount(Solution)
    /\ \E n \in 1..(Len(Solution) - 1) :
          /\ Solution[n].distance >= 2
          /\ Solution[n].piece_id = Solution[n + 1].piece_id
          /\ Solution[n].direction # Solution[n + 1].direction

\* C7: solve always terminates, by returning a Solution or by reporting
\* that the puzzle has no solution: it never runs forever.
C7_SolveTerminates == pc # "hang"

\* C8: solve reports "no solution" only when no state reachable from the
\* initial state by valid unit moves, the initial state included, is solved.
C8_NoSolutionOnlyIfUnsolvable ==
    (pc = "done" /\ result = "no_solution") =>
        \A t \in ReachableFrom({initial_state}) : ~IsSolved(t)

\* C9: a horizontal move followed by the opposite move of the same piece,
\* all three states being valid, gives back a state that renders as the
\* state before the move.
C9_MoveUndoReversible ==
    (/\ phase = "undone"
     /\ move_dir \in {LEFT, RIGHT}
     /\ IsValid(origin) /\ IsValid(moved_state) /\ IsValid(undone_state))
        => Render(undone_state) = Render(origin)

\* C10: one horizontal State.move translates each piece at most once (so
\* its work queue drains after at most as many iterations as there are
\* pieces), whatever the state it is called on.
C10_EachPieceMovedOnce ==
    \A i, j \in 1..Len(work_moved) : work_moved[i] = work_moved[j] => i = j

====
